---- MODULE Spec2Model ----
(***************************************************************************)
(* Wizard flow control and persistence of the social-support application:  *)
(* the persisted wizard-form-data / wizard-progress records, the flow      *)
(* guard derived from them, the step sequencer (wizardFlowGenerator), the   *)
(* singleton that owns it, and the pages that drive them (submit handlers, *)
(* debounced auto-save, Summary).  Three specifications share the state:   *)
(* SpecSeq (a caller of the sequencer API), SpecGuard (the flow guard on   *)
(* any store) and Spec (the application from a first visit).               *)
(***************************************************************************)
EXTENDS Integers, Sequences, FiniteSets, TLC

\* ------------------------------------------------------------------ bounds
\* Number of distinct form payloads a step can be submitted with.
MaxPayload == 2
\* Number of sequencer instances that can be alive (referenced or awaiting the
\* submission collaborator) at the same time.
MaxGens == 2
\* Number of distinct application numbers generateApplicationNumber can return.
MaxNumbers == 2
\* Number of sequencer instances the caller of the sequencer API creates.
MaxInstances == 3
\* The auto-save service is followed for MaxEvents calls and writes, over
\* MaxTime ms in steps of TickMs.
MaxEvents == 3
MaxTime == 2000
TickMs == 500

\* ------------------------------------------------------------------ values
Steps == 1..3
Payloads == 1..MaxPayload
Routes == {"/", "/step1", "/step2", "/step3", "/summary", "/other"}

\* A step record of wizard-form-data: the form fields (0 = no field, else the
\* payload they came from) and the two reserved completion fields.  JSON
\* serialisation drops keys whose value is undefined, hence "undefined".
Rec(f, c, t) == [present |-> TRUE, fields |-> f, isCompleted |-> c, completedAt |-> t]
\* wizardData[stepKey] is undefined: the key is absent from the record.
NoRec == [present |-> FALSE, fields |-> 0, isCompleted |-> "undefined", completedAt |-> "undefined"]
\* The record a submitted form payload is stored as (form fields only).
PayloadRec(p) == Rec(p, "undefined", "undefined")
EmptyStore == [s \in Steps |-> NoRec]

\* Step records the writers of this program can leave in storage.
CompletionPairs ==
  {<<"undefined", "undefined">>, <<"true", "set">>, <<"false", "undefined">>}
StoredRecs ==
  {NoRec} \cup { Rec(f, c[1], c[2]) : f \in 0..MaxPayload, c \in CompletionPairs }
StoredData == [Steps -> StoredRecs]

\* ------------------------------------------------------------------ state
VARIABLES
  wizardData,      \* localStorage["wizard-form-data"], parsed
  wizardProgress,  \* localStorage["wizard-progress"], parsed
  gens,            \* the sequencer instances, by slot
  globalGen,       \* globalWizardGenerator: a slot, or 0 for null
  location,        \* the router's current path
  last,            \* the last flow-guard or page operation, and the store before it
  wizardStep,      \* ConfigContext state.wizardStep
  mounting,        \* the page at location has rendered, its mount effects have not run
  form,            \* the mounted page's form values (0 = the empty defaults)
  isSubmitting,    \* the mounted page's isSubmitting state
  timers,          \* AutoSaveService.timers: the pending debounced write per step key
  now,             \* the time in ms, as far as the debounce timers are concerned
  log,             \* the debouncedSave calls and the timer writes so far, with their times
  handler,         \* per sequencer slot, the page submit handler awaiting it
  applicationNumber, \* localStorage["application-number"], 0 when absent
  wizardCompleted, \* localStorage["wizard-completed"] is set
  created,         \* number of instances getWizardGenerator() has created
  localStorage,    \* the browser store as the adapter sees it: a text or null per key
  call             \* the last call of the storage adapter and what it returned

pageVars == <<wizardStep, mounting, form, isSubmitting, timers, handler,
              applicationNumber, wizardCompleted, now, log>>
storeVars == <<localStorage, call>>
vars == <<wizardData, wizardProgress, gens, globalGen, location, last, pageVars,
          created, storeVars>>

\* ---------------------------------------------------------------- flow guard
getStepCompletion(data, step) ==
  [isCompleted |-> data[step].isCompleted = "true",
   completedAt |-> data[step].completedAt]

\* (mutant) the step's record is replaced by the completion fields alone.
markStepCompletedBare(data, step) ==
  [data EXCEPT ![step] = Rec(0, "true", "set")]

markStepCompleted(data, step) ==
  [data EXCEPT ![step] = Rec(data[step].fields, "true", "set")]

\* (mutant) only the step itself is invalidated, not the steps after it.
markStepIncompleteOnly(data, step) ==
  [s \in Steps |->
     IF s = step /\ data[s].present
       THEN Rec(data[s].fields, "false", "undefined")
       ELSE data[s]]

markStepIncomplete(data, step) ==
  [s \in Steps |->
     IF s >= step /\ data[s].present
       THEN Rec(data[s].fields, "false", "undefined")
       ELSE data[s]]

\* (mutant) a step without a record gets none.
resetAllCompletionsExisting(data) ==
  [s \in Steps |->
     IF data[s].present THEN Rec(data[s].fields, "false", "undefined") ELSE data[s]]

resetAllCompletions(data) ==
  [s \in Steps |-> Rec(data[s].fields, "false", "undefined")]

RECURSIVE lastCompletedFrom(_, _)
lastCompletedFrom(data, step) ==
  IF step > 3 THEN 3
  ELSE IF getStepCompletion(data, step).isCompleted
         THEN lastCompletedFrom(data, step + 1)
         ELSE step - 1

\* (mutant) the highest completed step, whatever precedes it.
getLastCompletedStepHighest(data) ==
  IF getStepCompletion(data, 3).isCompleted THEN 3
  ELSE IF getStepCompletion(data, 2).isCompleted THEN 2
  ELSE IF getStepCompletion(data, 1).isCompleted THEN 1
  ELSE 0

getLastCompletedStep(data) == lastCompletedFrom(data, 1)

\* (mutant) only the last step is looked at.
areAllStepsCompletedLast(data) == getStepCompletion(data, 3).isCompleted

areAllStepsCompleted(data) ==
  \A step \in Steps : getStepCompletion(data, step).isCompleted

\* (mutant) one step further than the first one not completed.
getNextAllowedStepAhead(data) ==
  IF getLastCompletedStep(data) + 2 < 3 THEN getLastCompletedStep(data) + 2 ELSE 3

getNextAllowedStep(data) ==
  IF getLastCompletedStep(data) + 1 < 3 THEN getLastCompletedStep(data) + 1 ELSE 3

routeToStep(route) ==
  CASE route = "/step1" -> 1
    [] route = "/step2" -> 2
    [] route = "/step3" -> 3
    [] route = "/summary" -> 4
    [] OTHER -> 0

\* (mutant) a step is reachable only once it is itself completed.
canAccessRouteStrict(data, route) ==
  LET targetStep == routeToStep(route) IN
  IF targetStep = 0 THEN TRUE
  ELSE IF targetStep = 1 THEN TRUE
  ELSE IF targetStep <= 3 THEN targetStep <= getLastCompletedStep(data)
  ELSE areAllStepsCompleted(data)

canAccessRoute(data, route) ==
  LET targetStep == routeToStep(route) IN
  IF targetStep = 0 THEN TRUE
  ELSE IF targetStep = 1 THEN TRUE
  ELSE IF targetStep <= 3 THEN targetStep <= getLastCompletedStep(data) + 1
  ELSE areAllStepsCompleted(data)

\* (mutant) the location is not looked at.
shouldGenerateApplicationNumberAnywhere(data, pathname) == areAllStepsCompleted(data)

shouldGenerateApplicationNumber(data, pathname) ==
  areAllStepsCompleted(data) /\ pathname = "/summary"

StepRoute(n) ==
  CASE n = 1 -> "/step1"
    [] n = 2 -> "/step2"
    [] n = 3 -> "/step3"
    [] OTHER -> "/step1"

\* A call of the router's navigate(to, { replace }), or none.
NoNav == [called |-> FALSE, to |-> "", replace |-> FALSE]
Nav(to, replace) == [called |-> TRUE, to |-> to, replace |-> replace]

\* (mutant) the redirect pushes a history entry.
redirectToAppropriateStepPush(data, currentPath) ==
  IF ~canAccessRoute(data, currentPath)
    THEN Nav(IF getNextAllowedStep(data) <= 3 THEN StepRoute(getNextAllowedStep(data))
             ELSE "/step1", FALSE)
    ELSE NoNav

\* The navigate call redirectToAppropriateStep makes at currentPath.
redirectToAppropriateStep(data, currentPath) ==
  IF ~canAccessRoute(data, currentPath)
    THEN Nav(IF getNextAllowedStep(data) <= 3 THEN StepRoute(getNextAllowedStep(data))
             ELSE "/step1", TRUE)
    ELSE NoNav

\* Where redirectToAppropriateStep leaves the router when it is at path.
redirectTarget(data, path) ==
  IF redirectToAppropriateStep(data, path).called
    THEN redirectToAppropriateStep(data, path).to ELSE path

Did(op, step) ==
  [op |-> op, step |-> step, payload |-> 0, before |-> wizardData, nav |-> NoNav]
NoOp == [op |-> "none", step |-> 0, payload |-> 0, before |-> EmptyStore, nav |-> NoNav]
\* A call of the useWizard API; the calls on an instance count as "next".
Api(op) == [NoOp EXCEPT !.op = op]

\* ------------------------------------------------------------- sequencer
\* What the submission collaborator can reject with: an Error carrying a
\* message, or a value that is not an Error.
Rejections ==
  {[isError |-> TRUE, message |-> "network down"],
   [isError |-> FALSE, message |-> "not an Error"]}
NoRejection == [isError |-> FALSE, message |-> ""]
DefaultError == "Failed to submit data to server. Please try again."

\* The values a next() call settles with.
NoOut ==
  [done |-> FALSE, kind |-> "none", step |-> 0, isComplete |-> FALSE,
   hasError |-> FALSE, error |-> "", success |-> FALSE, allData |-> EmptyStore]
Descriptor(n, savedProgress) ==
  [NoOut EXCEPT !.kind = "descriptor", !.step = n, !.isComplete = savedProgress > n - 1]
\* (mutant) the error yield always carries the generic text.
ErrorDescriptorGeneric(n, r) ==
  [NoOut EXCEPT !.kind = "error", !.step = n, !.isComplete = FALSE, !.hasError = TRUE,
                !.error = DefaultError]

ErrorDescriptor(n, r) ==
  [NoOut EXCEPT !.kind = "error", !.step = n, !.isComplete = FALSE, !.hasError = TRUE,
                !.error = IF r.isError THEN r.message ELSE DefaultError]
Terminal(allFormData) ==
  [NoOut EXCEPT !.done = TRUE, !.kind = "terminal", !.success = TRUE,
                !.allData = allFormData]
Finished == [NoOut EXCEPT !.done = TRUE, !.kind = "undefined"]

\* A slot holding no instance.  Besides the generator's own state (pc, step,
\* payload, allFormData, savedProgress) an instance carries what it was observed
\* to do: the store it loaded, the values it yielded (hist), the collaborator
\* calls it made (calls), the value it was last resumed with (arg), what the
\* collaborator last rejected with (cause) and what its last settled next()
\* returned (out).  id tells the instances getWizardGenerator() created apart
\* (object identity): the k-th one created has id k.
FreeGen ==
  [pc |-> "free", step |-> 0, payload |-> 0, allFormData |-> EmptyStore,
   savedProgress |-> 0, loaded |-> EmptyStore, hist |-> <<>>, calls |-> <<>>,
   arg |-> 0, cause |-> NoRejection, out |-> NoOut, id |-> 0]
\* wizardFlowGenerator(): the generator object exists, its body has not run.
NewGen == [FreeGen EXCEPT !.pc = "start"]

\* (mutant) the in-memory copy starts empty instead of from the stored record.
genLoadEmpty(g, data, progress) ==
  [g EXCEPT !.pc = "yield", !.step = 1, !.allFormData = EmptyStore,
            !.savedProgress = progress, !.loaded = data,
            !.hist = <<Descriptor(1, progress)>>,
            !.out = Descriptor(1, progress)]

\* First next(): the body runs up to the step-1 yield, loading the store.
genLoad(g, data, progress) ==
  [g EXCEPT !.pc = "yield", !.step = 1, !.allFormData = data,
            !.savedProgress = progress, !.loaded = data,
            !.hist = <<Descriptor(1, progress)>>,
            !.out = Descriptor(1, progress)]

\* (mutant) the payload is sent but never put into the in-memory copy.
genAcceptNoStore(g, p) ==
  [g EXCEPT !.pc = "await", !.payload = p,
            !.calls = Append(g.calls, <<g.step, p>>)]

\* Resumed with a payload at the yield of step g.step: the payload replaces the
\* step's entry of the in-memory copy and the collaborator is called; the
\* next() call stays pending.
genAccept(g, p) ==
  [g EXCEPT !.pc = "await", !.payload = p,
            !.allFormData = [g.allFormData EXCEPT ![g.step] = PayloadRec(p)],
            !.calls = Append(g.calls, <<g.step, p>>)]

\* (mutant) after step 3 the sequencer starts over at step 1 instead of returning.
genAdvanceRevisit(g) ==
  [g EXCEPT !.pc = "yield", !.step = (g.step % 3) + 1, !.payload = 0,
            !.hist = Append(g.hist, Descriptor((g.step % 3) + 1, g.savedProgress)),
            !.out = Descriptor((g.step % 3) + 1, g.savedProgress)]

\* (mutant) a step passed without data loses its stored record.
genAdvanceClearing(g) ==
  IF g.step < 3
    THEN [g EXCEPT !.pc = "yield", !.step = g.step + 1, !.payload = 0,
                   !.allFormData[g.step] = IF g.pc = "yield" THEN NoRec ELSE @,
                   !.hist = Append(g.hist, Descriptor(g.step + 1, g.savedProgress)),
                   !.out = Descriptor(g.step + 1, g.savedProgress)]
    ELSE [g EXCEPT !.pc = "done", !.payload = 0, !.out = Terminal(g.allFormData)]

\* Past step g.step (no data, or the collaborator resolved): the next yield,
\* or the return after step 3.
genAdvance(g) ==
  IF g.step < 3
    THEN [g EXCEPT !.pc = "yield", !.step = g.step + 1, !.payload = 0,
                   !.hist = Append(g.hist, Descriptor(g.step + 1, g.savedProgress)),
                   !.out = Descriptor(g.step + 1, g.savedProgress)]
    ELSE [g EXCEPT !.pc = "done", !.payload = 0, !.out = Terminal(g.allFormData)]

\* The collaborator rejected with r: the error yield of step g.step.
genFail(g, r) ==
  [g EXCEPT !.pc = "error", !.cause = r,
            !.hist = Append(g.hist, ErrorDescriptor(g.step, r)),
            !.out = ErrorDescriptor(g.step, r)]

\* What submitForm resolves with.
Response(success) == [success |-> success, message |-> "Form submitted"]

\* (mutant) a response with success false is turned into the error outcome.
genResolveChecked(g, response) ==
  IF response.success THEN genAdvance(g)
  ELSE genFail(g, [isError |-> TRUE, message |-> response.message])

\* The awaited submitForm resolved: the await is a statement, its value is
\* dropped, and the body goes on past the try.
genResolve(g, response) == genAdvance(g)

\* Resumed at the error yield (return), or after the end.
genReturn(g) == [g EXCEPT !.pc = "done", !.payload = 0, !.out = Finished]

\* ------------------------------------------------------ singleton (useWizard)
FreeSlots == {s \in 1..MaxGens : gens[s].pc = "free"}
Lowest(S) == CHOOSE s \in S : \A t \in S : s <= t
Awaiting == {s \in 1..MaxGens : gens[s].pc = "await"}

\* An instance nobody can reach any more is dropped, unless it still awaits the
\* collaborator (the pending promise keeps it alive).
Release(gs, s) ==
  IF s # 0 /\ gs[s].pc # "await" THEN [gs EXCEPT ![s] = FreeGen] ELSE gs

\* (mutant) every call creates an instance, whether or not one is referenced.
getWizardGeneratorAlways ==
  LET gs == Release(gens, globalGen)
      free == {s \in 1..MaxGens : gs[s].pc = "free"} IN
  /\ created < MaxInstances
  /\ free # {}
  /\ globalGen' = Lowest(free)
  /\ gens' = [gs EXCEPT ![Lowest(free)] = [NewGen EXCEPT !.id = created + 1]]
  /\ created' = created + 1
  /\ last' = Api("getWizardGenerator")
  /\ UNCHANGED <<wizardData, wizardProgress, location, pageVars, storeVars>>

\* getWizardGenerator() when globalWizardGenerator is null: an instance is
\* created.  When it is not null the call returns the instance globalGen
\* refers to and changes nothing.
getWizardGenerator ==
  /\ globalGen = 0
  /\ created < MaxInstances
  /\ FreeSlots # {}
  /\ globalGen' = Lowest(FreeSlots)
  /\ gens' = [gens EXCEPT ![Lowest(FreeSlots)] = [NewGen EXCEPT !.id = created + 1]]
  /\ created' = created + 1
  /\ last' = Api("getWizardGenerator")
  /\ UNCHANGED <<wizardData, wizardProgress, location, pageVars, storeVars>>

\* (mutant) the reset of the instance also empties the stored record.
resetWizardGeneratorClearing ==
  /\ globalGen' = 0
  /\ gens' = Release(gens, globalGen)
  /\ wizardData' = EmptyStore
  /\ last' = Api("resetWizardGenerator")
  /\ UNCHANGED <<wizardProgress, location, pageVars, created, storeVars>>

resetWizardGenerator ==
  /\ globalGen' = 0
  /\ gens' = Release(gens, globalGen)
  /\ last' = Api("resetWizardGenerator")
  /\ UNCHANGED <<wizardData, wizardProgress, location, pageVars, created, storeVars>>

resetWizard ==
  /\ globalGen' = 0
  /\ gens' = Release(gens, globalGen)
  /\ wizardData' = EmptyStore
  /\ wizardProgress' = 0
  /\ last' = Api("resetWizard")
  /\ UNCHANGED <<location, pageVars, created, storeVars>>

\* (mutant) no null check: every resume at a step's yield stores and submits.
ResumeNoNullCheck(s, v) ==
  LET g == [gens[s] EXCEPT !.arg = v] IN
  /\ g.pc \in {"start", "yield", "error", "done"}
  /\ CASE g.pc = "start" ->
            /\ gens' = [gens EXCEPT ![s] = genLoad(g, wizardData, wizardProgress)]
            /\ UNCHANGED <<wizardData, wizardProgress>>
       [] g.pc = "yield" ->
            /\ gens' = [gens EXCEPT ![s] = genAccept(g, v)]
            /\ wizardData' = genAccept(g, v).allFormData
            /\ wizardProgress' = g.step
       [] g.pc \in {"error", "done"} ->
            /\ gens' = [gens EXCEPT ![s] = genReturn(g)]
            /\ UNCHANGED <<wizardData, wizardProgress>>
  /\ last' = Api("next")
  /\ UNCHANGED <<globalGen, location, pageVars, created, storeVars>>

\* (mutant) the collaborator is called first and the two writes are left for
\* after its answer.
ResumeSendFirst(s, v) ==
  LET g == [gens[s] EXCEPT !.arg = v] IN
  /\ g.pc \in {"start", "yield", "error", "done"}
  /\ CASE g.pc = "start" ->
            gens' = [gens EXCEPT ![s] = genLoad(g, wizardData, wizardProgress)]
       [] g.pc = "yield" /\ v = 0 ->
            gens' = [gens EXCEPT ![s] = genAdvance(g)]
       [] g.pc = "yield" /\ v # 0 ->
            gens' = [gens EXCEPT ![s] = genAccept(g, v)]
       [] g.pc \in {"error", "done"} ->
            gens' = [gens EXCEPT ![s] = genReturn(g)]
  /\ last' = Api("next")
  /\ UNCHANGED <<wizardData, wizardProgress, globalGen, location, pageVars, created, storeVars>>

\* next(v) on instance s, v = 0 standing for next() / next(null) / next(undefined).
Resume(s, v) ==
  LET g == [gens[s] EXCEPT !.arg = v] IN
  /\ g.pc \in {"start", "yield", "error", "done"}
  /\ CASE g.pc = "start" ->
            /\ gens' = [gens EXCEPT ![s] = genLoad(g, wizardData, wizardProgress)]
            /\ UNCHANGED <<wizardData, wizardProgress>>
       [] g.pc = "yield" /\ v = 0 ->
            /\ gens' = [gens EXCEPT ![s] = genAdvance(g)]
            /\ UNCHANGED <<wizardData, wizardProgress>>
       [] g.pc = "yield" /\ v # 0 ->
            /\ gens' = [gens EXCEPT ![s] = genAccept(g, v)]
            /\ wizardData' = genAccept(g, v).allFormData
            /\ wizardProgress' = g.step
       [] g.pc \in {"error", "done"} ->
            /\ gens' = [gens EXCEPT ![s] = genReturn(g)]
            /\ UNCHANGED <<wizardData, wizardProgress>>
  /\ last' = Api("next")
  /\ UNCHANGED <<globalGen, location, pageVars, created, storeVars>>

\* The pending submitForm of instance s resolves with a response whose success
\* flag is given; last tells which of the two it was.
SubmitResolve(s, success) ==
  /\ gens[s].pc = "await"
  /\ gens' = [gens EXCEPT ![s] = genResolve(gens[s], Response(success))]
  /\ last' = Api(IF success THEN "resolved" ELSE "resolvedUnsuccessful")
  /\ UNCHANGED <<wizardData, wizardProgress, globalGen, location, pageVars, created, storeVars>>

\* The pending submitForm of instance s rejects with r.
SubmitReject(s, r) ==
  /\ gens[s].pc = "await"
  /\ gens' = [gens EXCEPT ![s] = genFail(gens[s], r)]
  /\ last' = Api("rejected")
  /\ UNCHANGED <<wizardData, wizardProgress, globalGen, location, pageVars, created, storeVars>>

\* ------------------------------------------------------------------ pages
PageRoutes == {"/step1", "/step2", "/step3", "/summary"}
AppNumbers == 1..MaxNumbers
\* The delay of the debounce timer, in ms.
Delay == 1000
NoTimer == [pending |-> FALSE, data |-> 0, due |-> 0]
\* No page handler awaits the slot; otherwise the page whose handler it is, the
\* wizardStep its nextStep closure captured, and whether that page component
\* instance is still the mounted one.
NoHandler == [page |-> 0, captured |-> 0, mounted |-> FALSE]

\* The stores and the view state the page code reads and writes.
World ==
  [data |-> wizardData, progress |-> wizardProgress, wizardStep |-> wizardStep,
   location |-> location, mounting |-> mounting, form |-> form,
   isSubmitting |-> isSubmitting, timers |-> timers, now |-> now, log |-> log,
   applicationNumber |-> applicationNumber, wizardCompleted |-> wizardCompleted]

Become(w) ==
  /\ wizardData' = w.data
  /\ wizardProgress' = w.progress
  /\ wizardStep' = w.wizardStep
  /\ location' = w.location
  /\ mounting' = w.mounting
  /\ form' = w.form
  /\ isSubmitting' = w.isSubmitting
  /\ timers' = w.timers
  /\ now' = w.now
  /\ log' = w.log
  /\ applicationNumber' = w.applicationNumber
  /\ wizardCompleted' = w.wizardCompleted
  /\ created' = created
  /\ UNCHANGED storeVars

\* SET_WIZARD_STEP, and the effect that saves wizard-progress when
\* state.wizardStep changed.
setWizardStep(w, v) ==
  [w EXCEPT !.wizardStep = v,
            !.progress = IF v # w.wizardStep THEN v ELSE w.progress]

\* (mutant) nextStep without its bound.
nextStepUnclamped(w, captured) == setWizardStep(w, captured + 1)

\* nextStep as the handler's closure holds it: state.wizardStep is the value
\* of the render the closure was created in.
nextStep(w, captured) ==
  IF captured < 2 THEN setWizardStep(w, captured + 1) ELSE w

previousStep(w, captured) ==
  IF captured > 0 THEN setWizardStep(w, captured - 1) ELSE w

\* RESET_WIZARD of useWizardNavigation, and the effect that saves
\* wizard-progress when state.wizardStep changed.
navResetWizard(w) ==
  [w EXCEPT !.wizardStep = 0,
            !.progress = IF w.wizardStep # 0 THEN 0 ELSE w.progress]

\* AutoSaveService.debouncedSave: the key's pending timer is replaced.
\* (mutant) a pending timer is kept and the new call dropped.
debouncedSaveKeepFirst(w, step, p) ==
  IF w.timers[step].pending THEN w
  ELSE [w EXCEPT !.timers[step] = [pending |-> TRUE, data |-> p, due |-> w.now + Delay]]

debouncedSave(w, step, p) ==
  [w EXCEPT !.timers[step] = [pending |-> TRUE, data |-> p, due |-> w.now + Delay]]

\* The timer callback of debouncedSave: the step's record is replaced by the
\* data of the call, the timer entry deleted.
timerCallback(w, step) ==
  [w EXCEPT !.data[step] = PayloadRec(w.timers[step].data),
            !.timers[step] = NoTimer]

\* (mutant) the pending timers are left running.
clearAllDataKeepTimers(w) == [w EXCEPT !.data = EmptyStore]

\* AutoSaveService.clearAllData: the record is removed, the timers cleared.
\* (mutant) only the first key's timer is cleared.
clearAllDataFirstTimer(w) == [w EXCEPT !.data = EmptyStore, !.timers[1] = NoTimer]

clearAllData(w) ==
  [w EXCEPT !.data = EmptyStore, !.timers = [s \in Steps |-> NoTimer]]

\* The completion tracking of useAutoSave(watch, stepKey, step): a completed
\* step whose live values change is invalidated at once.
invalidateOnChange(w, step) ==
  IF getStepCompletion(w.data, step).isCompleted
    THEN [w EXCEPT !.data = markStepIncomplete(w.data, step)]
    ELSE w

\* useAutoSave's effect for new live values p of the step's form.
autoSaveChange(w, step, p) == invalidateOnChange(debouncedSave(w, step, p), step)

\* navigate(route): the router renders the route's page; the page's effects
\* run later.  Navigating to the current path keeps the mounted page.
navigate(w, route) ==
  IF route = w.location THEN w
  ELSE [w EXCEPT !.location = route, !.mounting = TRUE, !.form = 0,
                 !.isSubmitting = FALSE]

\* Mount effects of a step page: setWizardStep(n - 1), the form takes the
\* stored fields as defaults, and Step 3's auto-save sees its first values.
stepMount(w, n) ==
  LET w1 == [setWizardStep(w, n - 1) EXCEPT !.form = w.data[n].fields] IN
  IF n = 3 THEN autoSaveChange(w1, 3, w1.form) ELSE w1

\* (mutant) the stored number is not looked at.
summaryMountAlways(w, newNumber) ==
  LET w2 == setWizardStep([w EXCEPT !.applicationNumber = newNumber], 3)
  IN IF w2.wizardCompleted THEN w2
     ELSE [clearAllData(w2) EXCEPT !.wizardCompleted = TRUE]

\* Mount effects of the Summary page; newNumber is what
\* generateApplicationNumber() returns.
summaryMount(w, newNumber) ==
  LET w1 == IF w.applicationNumber # 0 THEN w
            ELSE [w EXCEPT !.applicationNumber = newNumber]
      w2 == setWizardStep(w1, 3)
  IN IF w2.wizardCompleted THEN w2
     ELSE [clearAllData(w2) EXCEPT !.wizardCompleted = TRUE]

\* The route the router ends at for a path: "/" goes through WizardRedirect,
\* an unknown path through the catch-all route.
resolvePath(data, path) ==
  CASE path = "/" -> StepRoute(getNextAllowedStep(data))
    [] path \in PageRoutes -> path
    [] OTHER -> "/step1"

\* The sequencer resumed without data until it is at step n.
RECURSIVE fastForward(_, _)
fastForward(g, n) ==
  IF g.out.done \/ g.out.step >= n THEN g
  ELSE fastForward(genAdvance([g EXCEPT !.arg = 0]), n)

\* The pages never look at what a next() call settles with beyond its done and
\* hasError flags, and never resume an instance after its handler returned
\* (every handler starts by replacing it): of an instance awaiting the
\* collaborator only its position and payload are kept, of one whose handler
\* returned only its position.
Quiet(g) == [FreeGen EXCEPT !.pc = g.pc, !.step = g.step, !.payload = g.payload]
Retired(g) == [FreeGen EXCEPT !.pc = g.pc, !.step = g.step]

\* A page operation; the submissions are told apart by step, payload and
\* outcome (a resubmit is the submission of the payload whose submission just
\* failed), a mount by its page and the number generateApplicationNumber()
\* would return, a start-new by the number it removed.
Submissions == {"submit", "resubmit", "submitSucceeded", "submitFailed"}
Observed == Submissions \cup {"mount", "startNew"}
Op(op, step, p) ==
  IF op \in Observed THEN [NoOp EXCEPT !.op = op, !.step = step, !.payload = p]
  ELSE [NoOp EXCEPT !.op = "other"]

Orphaned(hs) == [s \in 1..MaxGens |-> [hs[s] EXCEPT !.mounted = FALSE]]
\* A settled instance stays only while globalWizardGenerator refers to it.
Settle(gs, s, g) ==
  [gs EXCEPT ![s] = IF globalGen = s THEN Retired(g) ELSE FreeGen]

\* The effects of the page rendered at location run.
Mount(newNumber) ==
  /\ mounting
  /\ Become(LET w == [World EXCEPT !.mounting = FALSE] IN
            IF location = "/summary" THEN summaryMount(w, newNumber)
            ELSE stepMount(w, routeToStep(location)))
  /\ last' = Op("mount", routeToStep(location),
                IF location = "/summary" THEN newNumber ELSE 0)
  /\ UNCHANGED <<gens, globalGen, handler>>

\* The user changes the mounted step page's form values to p.
EditForm(p) ==
  /\ ~mounting /\ location # "/summary"
  /\ p # form
  /\ Become(LET w == [World EXCEPT !.form = p] IN
            IF location = "/step3" THEN autoSaveChange(w, 3, p) ELSE w)
  /\ last' = Op("edit", routeToStep(location), 0)
  /\ UNCHANGED <<gens, globalGen, handler>>

\* A pending debounced write fires.
TimerFire(step) ==
  /\ timers[step].pending
  /\ wizardData' = [wizardData EXCEPT ![step] = PayloadRec(timers[step].data)]
  /\ timers' = [timers EXCEPT ![step] = NoTimer]
  /\ last' = Op("autoSave", step, 0)
  /\ UNCHANGED <<wizardProgress, gens, globalGen, location, wizardStep, mounting,
                 form, isSubmitting, handler, applicationNumber, wizardCompleted,
                 now, log, created, storeVars>>

\* handleNext / handleSubmit of step page n with valid form values, up to the
\* call of the collaborator: a fresh instance is taken, resumed up to step n
\* and given the form values.  Steps 1 and 2 submit through a button that is
\* disabled while isSubmitting; step 3 also submits on Enter.
Submit(n) ==
  /\ ~mounting /\ location = StepRoute(n)
  /\ form # 0
  /\ n < 3 => ~isSubmitting
  /\ LET gs == Release(gens, globalGen)
         free == {s \in 1..MaxGens : gs[s].pc = "free"}
         g0 == fastForward(genLoad(NewGen, wizardData, wizardProgress), n)
         g == genAccept([g0 EXCEPT !.arg = form], form)
     IN /\ free # {}
        /\ gens' = [gs EXCEPT ![Lowest(free)] = Quiet(g)]
        /\ globalGen' = Lowest(free)
        /\ handler' = [handler EXCEPT ![Lowest(free)] =
                         [page |-> n, captured |-> wizardStep, mounted |-> TRUE]]
        /\ Become([World EXCEPT !.isSubmitting = TRUE, !.data = g.allFormData,
                                !.progress = n])
  /\ last' = Op(IF last = Op("submitFailed", n, form) THEN "resubmit" ELSE "submit",
                n, form)

\* The collaborator resolves for the handler awaiting slot s: the sequencer
\* moves on and the page's handler continues (step 3 marks itself completed),
\* advances the navigation state and navigates.
SubmitSucceeded(s) ==
  LET n == handler[s].page
      w1 == IF n = 3 THEN [World EXCEPT !.data = markStepCompleted(wizardData, 3)]
            ELSE nextStep(World, handler[s].captured)
      target == IF n = 3 THEN "/summary" ELSE StepRoute(n + 1)
      w2 == navigate(w1, target)
  IN
  /\ n # 0 /\ gens[s].pc = "await"
  /\ gens' = Settle(gens, s, genAdvance(gens[s]))
  /\ Become(IF w2.location = location /\ handler[s].mounted
              THEN [w2 EXCEPT !.isSubmitting = FALSE] ELSE w2)
  /\ handler' = [(IF w2.location = location THEN handler ELSE Orphaned(handler))
                   EXCEPT ![s] = NoHandler]
  /\ last' = Op("submitSucceeded", n, gens[s].payload)
  /\ UNCHANGED globalGen

\* (mutant) the failure takes back what the submission stored.
SubmitFailedRollback(s, r) ==
  /\ handler[s].page # 0 /\ gens[s].pc = "await"
  /\ gens' = Settle(gens, s, genFail(gens[s], r))
  /\ isSubmitting' = IF handler[s].mounted THEN FALSE ELSE isSubmitting
  /\ handler' = [handler EXCEPT ![s] = NoHandler]
  /\ last' = Op("submitFailed", handler[s].page, gens[s].payload)
  /\ wizardData' = [wizardData EXCEPT ![handler[s].page] = NoRec]
  /\ wizardProgress' = handler[s].page - 1
  /\ UNCHANGED <<globalGen, location, wizardStep,
                 mounting, form, timers, applicationNumber, wizardCompleted,
                 now, log, created, storeVars>>

\* The collaborator rejects with r: the sequencer yields the error, the page
\* shows it and stays.
SubmitFailed(s, r) ==
  /\ handler[s].page # 0 /\ gens[s].pc = "await"
  /\ gens' = Settle(gens, s, genFail(gens[s], r))
  /\ isSubmitting' = IF handler[s].mounted THEN FALSE ELSE isSubmitting
  /\ handler' = [handler EXCEPT ![s] = NoHandler]
  /\ last' = Op("submitFailed", handler[s].page, gens[s].payload)
  /\ UNCHANGED <<wizardData, wizardProgress, globalGen, location, wizardStep,
                 mounting, form, timers, applicationNumber, wizardCompleted,
                 now, log, created, storeVars>>

\* handleBack of Step 2 and Step 3.
Back ==
  /\ ~mounting /\ location \in {"/step2", "/step3"} /\ ~isSubmitting
  /\ Become(navigate(World, StepRoute(routeToStep(location) - 1)))
  /\ handler' = Orphaned(handler)
  /\ last' = Op("back", 0, 0)
  /\ UNCHANGED <<gens, globalGen>>

\* handleStartNew of the Summary page.
StartNew ==
  /\ ~mounting /\ location = "/summary"
  /\ Become(LET w1 == [clearAllData(World) EXCEPT !.wizardCompleted = FALSE,
                                                  !.applicationNumber = 0]
                w2 == [w1 EXCEPT !.data = EmptyStore, !.progress = 0]
            IN navigate(setWizardStep(w2, 0), "/step1"))
  /\ gens' = Release(gens, globalGen)
  /\ globalGen' = 0
  /\ handler' = Orphaned(handler)
  /\ last' = Op("startNew", 0, applicationNumber)

\* The application is (re)loaded at a path: memory is lost, wizardStep is read
\* back from wizard-progress, the router renders the path's page.
OpenPath(path) ==
  /\ gens' = [s \in 1..MaxGens |-> FreeGen]
  /\ globalGen' = 0
  /\ handler' = [s \in 1..MaxGens |-> NoHandler]
  /\ Become([World EXCEPT !.wizardStep = wizardProgress,
                          !.timers = [s \in Steps |-> NoTimer],
                          !.location = resolvePath(wizardData, path),
                          !.mounting = TRUE, !.form = 0, !.isSubmitting = FALSE])
  /\ last' = Op("openPath", 0, 0)

\* --------------------------------------------------------- storage adapter
\* saveToStorage / loadFromStorage / removeFromStorage over the browser's
\* localStorage.  JSON values are numbers, strings and flat objects; a text is
\* the token sequence JSON.stringify produces for a value, or one that
\* JSON.parse rejects.
Keys == {"wizard-form-data", "wizard-progress"}
Fields == {"personalInfo", "professionalInfo"}
NoFields == [f \in {} |-> ""]
Num(n) == [type |-> "number", num |-> n, str |-> "", fields |-> NoFields]
Str(t) == [type |-> "string", num |-> 0, str |-> t, fields |-> NoFields]
Obj(fs) == [type |-> "object", num |-> 0, str |-> "", fields |-> fs]
EmptyObj == Obj(NoFields)
Scalars == {Num(0), Num(42), Str(""), Str("42")}
FieldValues == {Num(0), Str("Jo")}
Objects == {Obj(fs) : fs \in UNION {[S -> FieldValues] : S \in SUBSET Fields}}
JsonValues == Scalars \cup Objects

Tok(t, k, v) == [t |-> t, k |-> k, v |-> v]
Member(o, f) == IF f \in DOMAIN o.fields THEN <<Tok("member", f, o.fields[f])>> ELSE <<>>

\* (mutant) strings are written without their quotes.
stringifyUnquoted(v) ==
  CASE v.type = "number" -> <<Tok("number", "", v)>>
    [] v.type = "string" -> <<Tok("bare", "", v)>>
    [] OTHER -> <<Tok("{", "", Num(0))>> \o Member(v, "personalInfo")
                  \o Member(v, "professionalInfo") \o <<Tok("}", "", Num(0))>>

\* JSON.stringify
stringify(v) ==
  CASE v.type = "number" -> <<Tok("number", "", v)>>
    [] v.type = "string" -> <<Tok("string", "", v)>>
    [] OTHER -> <<Tok("{", "", Num(0))>> \o Member(v, "personalInfo")
                  \o Member(v, "professionalInfo") \o <<Tok("}", "", Num(0))>>

\* JSON.parse: the value, or a SyntaxError.
parse(text) ==
  LET n == Len(text)
      names == {text[i].k : i \in 2..(n - 1)}
      lastOf(f) == CHOOSE i \in 2..(n - 1) :
                     text[i].k = f /\ \A j \in (i + 1)..(n - 1) : text[j].k # f
  IN
  IF n = 1 /\ text[1].t \in {"number", "string"}
    THEN [threw |-> FALSE, value |-> text[1].v]
  ELSE IF /\ n >= 2 /\ text[1].t = "{" /\ text[n].t = "}"
          /\ \A i \in 2..(n - 1) : text[i].t = "member"
    THEN [threw |-> FALSE, value |-> Obj([f \in names |-> text[lastOf(f)].v])]
  ELSE [threw |-> TRUE, value |-> Num(0)]

\* What localStorage holds under a key: nothing, or a text; by tells who
\* wrote it (the adapter, or something else before the session).
NullItem == [present |-> FALSE, text |-> <<>>, by |-> "nobody"]
Item(text, by) == [present |-> TRUE, text |-> text, by |-> by]
ForeignTexts ==
  {stringify(Num(42)), stringify(Obj([f \in {"personalInfo"} |-> Str("Jo")])),
   <<>>, <<Tok("{", "", Num(0))>>}
ForeignItems == {NullItem} \cup {Item(t, "other") : t \in ForeignTexts}

\* localStorage.setItem / getItem / removeItem; fault: the call throws
\* (quota exceeded, storage disabled).
setItem(ls, key, text, fault) ==
  [threw |-> fault,
   store |-> IF fault THEN ls ELSE [ls EXCEPT ![key] = Item(text, "adapter")]]
getItem(ls, key, fault) == [threw |-> fault, item |-> IF fault THEN NullItem ELSE ls[key]]
removeItem(ls, key, fault) ==
  [threw |-> fault, store |-> IF fault THEN ls ELSE [ls EXCEPT ![key] = NullItem]]

\* What an adapter call leaves: whether it threw, what it returned, the store.
Outcome(threw, value, store) == [threw |-> threw, value |-> value, store |-> store]

saveToStorage(ls, key, value, fault) ==
  Outcome(FALSE, EmptyObj, setItem(ls, key, stringify(value), fault).store)

loadFromStorage(ls, key, defaultValue, fault) ==
  LET r == getItem(ls, key, fault) IN
  IF r.threw \/ ~r.item.present \/ parse(r.item.text).threw
    THEN Outcome(FALSE, defaultValue, ls)
    ELSE Outcome(FALSE, parse(r.item.text).value, ls)

removeFromStorage(ls, key, fault) ==
  Outcome(FALSE, EmptyObj, removeItem(ls, key, fault).store)

\* useWizard's readers on top of the adapter.
StepField(step) ==
  CASE step = 1 -> "personalInfo"
    [] step = 2 -> "professionalInfo"
    [] step = 3 -> "additionalInfo"
    [] OTHER -> ""
Falsy(v) == v \in {Num(0), Str("")}
getStepData(ls, step, fault) ==
  LET savedData == loadFromStorage(ls, "wizard-form-data", EmptyObj, fault).value IN
  Outcome(FALSE,
          IF /\ StepField(step) \in DOMAIN savedData.fields
             /\ ~Falsy(savedData.fields[StepField(step)])
            THEN savedData.fields[StepField(step)]
            ELSE EmptyObj,
          ls)
\* (mutant) the progress is read and parsed without the adapter.
getWizardProgressRaw(ls, fault) ==
  LET r == getItem(ls, "wizard-progress", fault) IN
  Outcome(r.threw \/ ~r.item.present \/ parse(r.item.text).threw,
          parse(r.item.text).value, ls)
getWizardProgress(ls, fault) == loadFromStorage(ls, "wizard-progress", Num(0), fault)

\* The adapter's last call: what was asked, whether the underlying operation
\* threw (fault), whether the caller saw an exception (threw), what came back.
Called(op, key, value, fault, r) ==
  [op |-> op, key |-> key, value |-> value, fault |-> fault,
   threw |-> r.threw, returned |-> r.value]
NoCall == Called("none", "", EmptyObj, FALSE, Outcome(FALSE, EmptyObj, <<>>))
\* The defaults the callers pass: 0, {} and a string.
Defaults == {Num(0), EmptyObj, Str("42")}
StoreIdle ==
  /\ localStorage = [k \in Keys |-> NullItem]
  /\ call = NoCall

\* ------------------------------------------------ the sequencer and its caller
\* No page is involved: the view state stays at its initial values.
ViewIdle ==
  /\ wizardStep = 0
  /\ mounting = FALSE
  /\ form = 0
  /\ isSubmitting = FALSE
  /\ timers = [s \in Steps |-> NoTimer]
  /\ now = 0
  /\ log = <<>>
  /\ handler = [s \in 1..MaxGens |-> NoHandler]
  /\ applicationNumber = 0
  /\ wizardCompleted = FALSE
  /\ created = 0
PageIdle == ViewIdle /\ StoreIdle

\* The store a new session can find: per step nothing, or the record of an
\* earlier session, completed or invalidated.
SeqInitRecs == {NoRec, Rec(1, "true", "set"), Rec(1, "false", "undefined")}

InitSeq ==
  /\ wizardData \in [Steps -> SeqInitRecs]
  /\ wizardProgress \in 0..3
  /\ gens = [s \in 1..MaxGens |-> FreeGen]
  /\ globalGen = 0
  /\ location = "/step1"
  /\ last = NoOp
  /\ PageIdle

\* One caller of the useWizard API: it reaches the instance through
\* getWizardGenerator() and awaits each call before making the following one.
NextSeq ==
  \/ getWizardGenerator
  \/ Awaiting = {} /\ resetWizardGenerator
  \/ Awaiting = {} /\ resetWizard
  \/ \E v \in 0..MaxPayload : globalGen # 0 /\ Resume(globalGen, v)
  \/ \E s \in 1..MaxGens, success \in BOOLEAN : SubmitResolve(s, success)
  \/ \E s \in 1..MaxGens, r \in Rejections : SubmitReject(s, r)

SpecSeq == InitSeq /\ [][NextSeq]_vars

\* ------------------------------------------------- the flow guard on any store
MarkStepCompleted(step) ==
  /\ wizardData' = markStepCompleted(wizardData, step)
  /\ last' = Did("markStepCompleted", step)
  /\ UNCHANGED <<wizardProgress, gens, globalGen, location, pageVars, created, storeVars>>

MarkStepIncomplete(step) ==
  /\ wizardData' = markStepIncomplete(wizardData, step)
  /\ last' = Did("markStepIncomplete", step)
  /\ UNCHANGED <<wizardProgress, gens, globalGen, location, pageVars, created, storeVars>>

ResetAllCompletions ==
  /\ wizardData' = resetAllCompletions(wizardData)
  /\ last' = Did("resetAllCompletions", 0)
  /\ UNCHANGED <<wizardProgress, gens, globalGen, location, pageVars, created, storeVars>>

\* The user enters a path in the address bar.
EnterRoute(route) ==
  /\ location' = route
  /\ last' = Did("enterRoute", 0)
  /\ UNCHANGED <<wizardData, wizardProgress, gens, globalGen, pageVars, created, storeVars>>

RedirectToAppropriateStep ==
  /\ location' = redirectTarget(wizardData, location)
  /\ last' = [Did("redirectToAppropriateStep", 0) EXCEPT
               !.nav = redirectToAppropriateStep(wizardData, location)]
  /\ UNCHANGED <<wizardData, wizardProgress, gens, globalGen, pageVars, created, storeVars>>

\* The effect of WizardRedirect, the element of the root route.
WizardRedirect ==
  /\ location = "/"
  /\ location' = StepRoute(getNextAllowedStep(wizardData))
  /\ last' = [Did("wizardRedirect", 0) EXCEPT
               !.nav = Nav(StepRoute(getNextAllowedStep(wizardData)), TRUE)]
  /\ UNCHANGED <<wizardData, wizardProgress, gens, globalGen, pageVars, created, storeVars>>

\* A component asks whether the number may be generated; the answer is kept
\* as payload 1 (true) or 0 (false).
ShouldGenerateApplicationNumber ==
  /\ last' = [Did("shouldGenerateApplicationNumber", 0) EXCEPT
               !.payload = IF shouldGenerateApplicationNumber(wizardData, location)
                           THEN 1 ELSE 0]
  /\ UNCHANGED <<wizardData, wizardProgress, gens, globalGen, location, pageVars,
                 created, storeVars>>

InitGuard ==
  /\ wizardData \in StoredData
  /\ wizardProgress = 0
  /\ gens = [s \in 1..MaxGens |-> FreeGen]
  /\ globalGen = 0
  /\ location \in Routes
  /\ last = NoOp
  /\ PageIdle

NextGuard ==
  \/ \E step \in Steps : MarkStepCompleted(step)
  \/ \E step \in Steps : MarkStepIncomplete(step)
  \/ ResetAllCompletions
  \/ \E route \in Routes : EnterRoute(route)
  \/ RedirectToAppropriateStep
  \/ ShouldGenerateApplicationNumber
  \/ WizardRedirect

SpecGuard == InitGuard /\ [][NextGuard]_vars

\* ------------------------------------------- the storage adapter and its callers
appVars == <<wizardData, wizardProgress, gens, globalGen, location, last, pageVars, created>>

SaveToStorage(key, value, fault) ==
  /\ localStorage' = saveToStorage(localStorage, key, value, fault).store
  /\ call' = Called("saveToStorage", key, value, fault,
                    saveToStorage(localStorage, key, value, fault))
  /\ UNCHANGED appVars

LoadFromStorage(key, defaultValue, fault) ==
  /\ localStorage' = loadFromStorage(localStorage, key, defaultValue, fault).store
  /\ call' = Called("loadFromStorage", key, defaultValue, fault,
                    loadFromStorage(localStorage, key, defaultValue, fault))
  /\ UNCHANGED appVars

RemoveFromStorage(key, fault) ==
  /\ localStorage' = removeFromStorage(localStorage, key, fault).store
  /\ call' = Called("removeFromStorage", key, EmptyObj, fault,
                    removeFromStorage(localStorage, key, fault))
  /\ UNCHANGED appVars

GetStepData(step, fault) ==
  /\ localStorage' = getStepData(localStorage, step, fault).store
  /\ call' = Called("getStepData", "wizard-form-data", Num(step), fault,
                    getStepData(localStorage, step, fault))
  /\ UNCHANGED appVars

GetWizardProgress(fault) ==
  /\ localStorage' = getWizardProgress(localStorage, fault).store
  /\ call' = Called("getWizardProgress", "wizard-progress", Num(0), fault,
                    getWizardProgress(localStorage, fault))
  /\ UNCHANGED appVars

\* The keys hold whatever an earlier session, or another script of the
\* origin, left there.
InitStore ==
  /\ wizardData = EmptyStore
  /\ wizardProgress = 0
  /\ gens = [s \in 1..MaxGens |-> FreeGen]
  /\ globalGen = 0
  /\ location = "/step1"
  /\ last = NoOp
  /\ ViewIdle
  /\ localStorage \in [Keys -> ForeignItems]
  /\ call = NoCall

NextStore ==
  \/ \E key \in Keys, value \in JsonValues, fault \in BOOLEAN : SaveToStorage(key, value, fault)
  \/ \E key \in Keys, d \in Defaults, fault \in BOOLEAN : LoadFromStorage(key, d, fault)
  \/ \E key \in Keys, fault \in BOOLEAN : RemoveFromStorage(key, fault)
  \/ \E step \in 0..4, fault \in BOOLEAN : GetStepData(step, fault)
  \/ \E fault \in BOOLEAN : GetWizardProgress(fault)

SpecStore == InitStore /\ [][NextStore]_vars

\* ------------------------------------------ the navigation state and its writers
\* useWizardNavigation as a component holds it: handler[1].captured is the
\* state.wizardStep of the render its nextStep and previousStep closures come
\* from.  wizard-progress is also written by the sequencer and by resetWizard.
Called2(op, v) == [Api(op) EXCEPT !.step = v]

SetWizardStep(v) ==
  /\ Become(setWizardStep(World, v))
  /\ last' = Called2("setWizardStep", v)
  /\ UNCHANGED <<gens, globalGen, handler>>

NextStep ==
  /\ Become(nextStep(World, handler[1].captured))
  /\ last' = Called2("nextStep", handler[1].captured)
  /\ UNCHANGED <<gens, globalGen, handler>>

PreviousStep ==
  /\ Become(previousStep(World, handler[1].captured))
  /\ last' = Called2("previousStep", handler[1].captured)
  /\ UNCHANGED <<gens, globalGen, handler>>

NavResetWizard ==
  /\ Become(navResetWizard(World))
  /\ last' = Called2("navResetWizard", 0)
  /\ UNCHANGED <<gens, globalGen, handler>>

\* The component renders again: its closures see the current state.
Render ==
  /\ handler[1].captured # wizardStep
  /\ handler' = [handler EXCEPT ![1].captured = wizardStep]
  /\ last' = Called2("render", 0)
  /\ Become(World)
  /\ UNCHANGED <<gens, globalGen>>

\* The sequencer saves its step (1, 2, 3), resetWizard saves 0.
SaveProgress(v) ==
  /\ Become([World EXCEPT !.progress = v])
  /\ last' = Called2("saveProgress", v)
  /\ UNCHANGED <<gens, globalGen, handler>>

\* The application is loaded again: the state starts from wizard-progress.
Reload ==
  /\ Become([World EXCEPT !.wizardStep = wizardProgress])
  /\ handler' = [handler EXCEPT ![1].captured = wizardProgress]
  /\ last' = Called2("reload", 0)
  /\ UNCHANGED <<gens, globalGen>>

InitNav ==
  /\ wizardData = EmptyStore
  /\ wizardProgress = 0
  /\ gens = [s \in 1..MaxGens |-> FreeGen]
  /\ globalGen = 0
  /\ location = "/step1"
  /\ last = NoOp
  /\ PageIdle

NextNav ==
  \/ \E v \in 0..3 : SetWizardStep(v)
  \/ NextStep
  \/ PreviousStep
  \/ NavResetWizard
  \/ Render
  \/ \E v \in 0..3 : SaveProgress(v)
  \/ Reload

SpecNav == InitNav /\ [][NextNav]_vars

\* ------------------------------------------------- the auto-save service in time
Event(kind, step, data) == [kind |-> kind, step |-> step, data |-> data, at |-> now]

DebouncedSave(step, p) ==
  /\ Len(log) < MaxEvents
  /\ Become([debouncedSave(World, step, p) EXCEPT
               !.log = Append(log, Event("call", step, p))])
  /\ last' = Called2("debouncedSave", step)
  /\ UNCHANGED <<gens, globalGen, handler>>

\* Time passes; a timer that is due need not have fired yet.
Tick ==
  /\ now < MaxTime
  /\ Become([World EXCEPT !.now = now + TickMs])
  /\ last' = Called2("tick", 0)
  /\ UNCHANGED <<gens, globalGen, handler>>

\* The browser runs the callback of a timer that is due.
TimerDue(step) ==
  /\ timers[step].pending /\ now >= timers[step].due
  /\ Len(log) < MaxEvents
  /\ Become([timerCallback(World, step) EXCEPT
               !.log = Append(log, Event("write", step, timers[step].data))])
  /\ last' = Called2("timer", step)
  /\ UNCHANGED <<gens, globalGen, handler>>

ClearAllData ==
  /\ Len(log) < MaxEvents
  /\ Become([clearAllData(World) EXCEPT !.log = Append(log, Event("clear", 0, 0))])
  /\ last' = Called2("clearAllData", 0)
  /\ UNCHANGED <<gens, globalGen, handler>>

InitSave ==
  /\ wizardData = EmptyStore
  /\ wizardProgress = 0
  /\ gens = [s \in 1..MaxGens |-> FreeGen]
  /\ globalGen = 0
  /\ location = "/step1"
  /\ last = NoOp
  /\ PageIdle

NextSave ==
  \/ \E step \in Steps, p \in 1..MaxPayload : DebouncedSave(step, p)
  \/ Tick
  \/ \E step \in Steps : TimerDue(step)
  \/ ClearAllData

SpecSave == InitSave /\ [][NextSave]_vars

\* ------------------------------------------- auto-save on any completion state
\* useAutoSave(watch, stepKey, step) of a step form sees new live values p;
\* form is the snapshot it compared them with.
AutoSaveChange(step, p) ==
  /\ p # form
  /\ Become(autoSaveChange([World EXCEPT !.form = p], step, p))
  /\ last' = [Did("autoSaveChange", step) EXCEPT !.payload = p]
  /\ UNCHANGED <<gens, globalGen, handler>>

NextAuto ==
  \/ \E step \in Steps, p \in 1..MaxPayload : AutoSaveChange(step, p)
  \/ \E step \in Steps : TimerFire(step)
  \/ \E step \in Steps : MarkStepCompleted(step)

\* What an earlier session left: per step nothing, a completed record or an
\* invalidated one.
InitAuto ==
  /\ wizardData \in [Steps -> SeqInitRecs]
  /\ wizardProgress = 0
  /\ gens = [s \in 1..MaxGens |-> FreeGen]
  /\ globalGen = 0
  /\ location = "/step1"
  /\ last = NoOp
  /\ PageIdle

SpecAuto == InitAuto /\ [][NextAuto]_vars

\* ------------------------------------- the sequencer among the other writers
\* One instance is taken through the steps by its caller while the flow guard
\* (marking steps 1 and 2) and Step 3's auto-save write the same record.
InitShared ==
  /\ wizardData = EmptyStore
  /\ wizardProgress = 0
  /\ gens = [s \in 1..MaxGens |-> FreeGen]
  /\ globalGen = 0
  /\ location = "/step1"
  /\ last = NoOp
  /\ PageIdle

NextShared ==
  \/ getWizardGenerator
  \/ \E v \in 0..1 : globalGen # 0 /\ Resume(globalGen, v)
  \/ \E s \in 1..MaxGens, success \in BOOLEAN : SubmitResolve(s, success)
  \/ \E step \in 1..2 : MarkStepCompleted(step)
  \/ AutoSaveChange(3, 2)
  \/ TimerFire(3)

SpecShared == InitShared /\ [][NextShared]_vars

\* ------------------------------------------- the summary on a completed wizard
\* The steps get their completion from markStepCompleted; the pages are
\* opened by path, the Summary runs its mount effects and offers start-new.
InitSummary ==
  /\ wizardData = EmptyStore
  /\ wizardProgress = 0
  /\ gens = [s \in 1..MaxGens |-> FreeGen]
  /\ globalGen = 0
  /\ location = "/step1"
  /\ last = NoOp
  /\ PageIdle

NextSummary ==
  \/ \E step \in Steps : MarkStepCompleted(step)
  \/ \E path \in Routes : OpenPath(path)
  \/ \E newNumber \in AppNumbers : Mount(newNumber)
  \/ StartNew

SpecSummary == InitSummary /\ [][NextSummary]_vars

\* ------------------------------------------------------------ the application
\* A first visit: nothing is stored, the router has rendered Step 1.
Init ==
  /\ wizardData = EmptyStore
  /\ wizardProgress = 0
  /\ gens = [s \in 1..MaxGens |-> FreeGen]
  /\ globalGen = 0
  /\ location = "/step1"
  /\ last = NoOp
  /\ wizardStep = 0
  /\ mounting = TRUE
  /\ form = 0
  /\ isSubmitting = FALSE
  /\ timers = [s \in Steps |-> NoTimer]
  /\ now = 0
  /\ log = <<>>
  /\ handler = [s \in 1..MaxGens |-> NoHandler]
  /\ applicationNumber = 0
  /\ wizardCompleted = FALSE
  /\ created = 0
  /\ StoreIdle

Next ==
  \/ \E newNumber \in AppNumbers : Mount(newNumber)
  \/ \E p \in 0..MaxPayload : EditForm(p)
  \/ \E step \in Steps : TimerFire(step)
  \/ \E n \in Steps : Submit(n)
  \/ \E s \in 1..MaxGens : SubmitSucceeded(s)
  \/ \E s \in 1..MaxGens, r \in Rejections : SubmitFailed(s, r)
  \/ Back
  \/ StartNew
  \/ \E path \in Routes : OpenPath(path)

Spec == Init /\ [][Next]_vars

\* ------------------------------------------------- a user who goes straight on
\* The user fills the form of the page in front of them, submits it, and
\* submits again after a failure; the collaborator fails any number of times
\* but not for ever.  Pages mount, pending timers fire.
UserFills == \E p \in 1..MaxPayload : form = 0 /\ EditForm(p)
UserSubmits == \E n \in Steps : ~isSubmitting /\ Submit(n)
Succeeds == \E s \in 1..MaxGens : SubmitSucceeded(s)
Mounts == \E newNumber \in AppNumbers : Mount(newNumber)

NextLive ==
  \/ Mounts
  \/ UserFills
  \/ UserSubmits
  \/ Succeeds
  \/ \E s \in 1..MaxGens, r \in Rejections : SubmitFailed(s, r)
  \/ \E step \in Steps : TimerFire(step)

SpecLive ==
  /\ Init /\ [][NextLive]_vars
  /\ WF_vars(Mounts) /\ WF_vars(UserFills) /\ WF_vars(UserSubmits)
  /\ SF_vars(Succeeds)

\* ================================================================== claims
Live == {s \in 1..MaxGens : gens[s].pc # "free"}
NoErrorIn(h) == \A i \in 1..Len(h) : ~h[i].hasError
\* The payload instance g sent for step m, 0 when step m was resumed without data.
Supplied(g, m) ==
  IF \E i \in 1..Len(g.calls) : g.calls[i][1] = m
    THEN g.calls[CHOOSE i \in 1..Len(g.calls) : g.calls[i][1] = m][2]
    ELSE 0

\* C1: the steps an instance yields never decrease, and as long as no
\* submission failed the k-th value it yields is the descriptor of step k, so
\* that an instance that returned its terminal result yielded exactly 1, 2, 3.
C1_YieldOrder ==
  \A s \in Live :
    LET h == gens[s].hist IN
    /\ \A i \in 1..Len(h) : \A j \in i..Len(h) : h[i].step <= h[j].step
    /\ NoErrorIn(h) =>
         /\ Len(h) <= 3
         /\ \A i \in 1..Len(h) : h[i].kind = "descriptor" /\ h[i].step = i
         /\ gens[s].pc = "done" => Len(h) = 3

\* C1 witness: an instance went through all three steps, with and without
\* payloads, and returned.
C1_Witness ==
  \E s \in Live :
    /\ gens[s].pc = "done" /\ gens[s].out.kind = "terminal"
    /\ Len(gens[s].hist) = 3
    /\ Len(gens[s].calls) = 2

\* C2: when the collaborator rejects step n's payload the instance yields
\* {step: n, isComplete: false, hasError: true, error} with the message of the
\* rejecting Error, nothing is yielded after that error (the next resume ends
\* the instance), and step n's stored record is not marked completed.
C2_ErrorHalts ==
  \A s \in Live :
    LET g == gens[s]  h == gens[s].hist IN
    /\ \A i \in 1..Len(h) : h[i].hasError => i = Len(h)
    /\ g.pc = "error" =>
         /\ g.out = h[Len(h)]
         /\ g.out.kind = "error" /\ ~g.out.done
         /\ g.out.step = g.step /\ g.calls[Len(g.calls)][1] = g.step
         /\ ~g.out.isComplete /\ g.out.hasError
         /\ g.cause.isError => g.out.error = g.cause.message
         /\ wizardData[g.step].isCompleted # "true"
    /\ (Len(h) > 0 /\ h[Len(h)].hasError /\ g.pc # "error") =>
         /\ g.pc = "done" /\ g.out = Finished
         /\ wizardData[g.step].isCompleted # "true"

\* C2 witness: step 2 was stored as completed, its payload was rejected with
\* Error("network down") and the instance was resumed once more.
C2_Witness ==
  \E s \in Live :
    /\ gens[s].pc = "done" /\ gens[s].step = 2
    /\ gens[s].loaded[2].isCompleted = "true"
    /\ Len(gens[s].hist) = 3 /\ gens[s].hist[3].error = "network down"

\* C9: resuming an instance suspended at step n's yield with null/undefined
\* writes neither wizard-form-data nor wizard-progress, calls no collaborator,
\* and yields step n+1's descriptor, or returns the terminal result at step 3.
C9_NullResume ==
  [][\A s \in 1..MaxGens :
       (gens[s].pc = "yield" /\ gens'[s].pc # "free" /\ gens'[s] # gens[s]
          /\ gens'[s].arg = 0)
       => /\ wizardData' = wizardData
          /\ wizardProgress' = wizardProgress
          /\ gens'[s].calls = gens[s].calls
          /\ gens'[s].pc # "await"
          /\ gens'[s].allFormData = gens[s].allFormData
          /\ gens[s].step < 3 =>
               /\ gens'[s].pc = "yield"
               /\ gens'[s].out = Descriptor(gens[s].step + 1, gens[s].savedProgress)
          /\ gens[s].step = 3 =>
               /\ gens'[s].pc = "done"
               /\ gens'[s].out = Terminal(gens[s].allFormData)]_vars

\* C9 witness: an instance returned its terminal result after being resumed
\* without data at every step, over a store that holds data.
C9_Witness ==
  \E s \in Live :
    /\ gens[s].pc = "done" /\ gens[s].out.kind = "terminal"
    /\ gens[s].arg = 0 /\ gens[s].calls = <<>>
    /\ wizardData[1].present

\* C10: when the collaborator resolves step 3's payload the pending next()
\* returns (done) {success: true, allData}; allData holds, per step, the payload
\* this instance was given, or the record it loaded when the step was resumed
\* without data; a finished instance yields nothing more.
C10_TerminalResult ==
  [][\A s \in 1..MaxGens :
       /\ (gens[s].pc = "await" /\ gens[s].step = 3 /\ gens'[s].pc \notin {"await", "error", "free"})
          => /\ gens'[s].pc = "done"
             /\ gens'[s].out.kind = "terminal"
       /\ (gens'[s].pc = "done" /\ gens'[s].out.kind = "terminal")
          => /\ gens'[s].out.done /\ gens'[s].out.success
             /\ \A m \in Steps :
                  gens'[s].out.allData[m] =
                    IF Supplied(gens'[s], m) # 0
                      THEN PayloadRec(Supplied(gens'[s], m))
                      ELSE gens'[s].loaded[m]
       /\ (gens[s].pc = "done" /\ gens'[s].pc # "free")
          => /\ gens'[s].pc = "done"
             /\ gens'[s].hist = gens[s].hist
             /\ gens'[s] # gens[s] => gens'[s].out = Finished]_vars

\* C10 witness: the terminal result of an instance that was given payloads for
\* steps 1 and 3 and resumed without data at step 2, whose record it had loaded.
C10_Witness ==
  \E s \in Live :
    /\ gens[s].pc = "done" /\ gens[s].out.kind = "terminal"
    /\ Supplied(gens[s], 1) = 2 /\ Supplied(gens[s], 2) = 0 /\ Supplied(gens[s], 3) = 1
    /\ gens[s].loaded[2].present /\ gens[s].out.allData[2] = gens[s].loaded[2]

\* Step s is stored as completed.
Completed(data, s) == data[s].isCompleted = "true"

\* C3: on every store content /step1 is accessible; /step2 and /step3 are
\* accessible exactly when n <= getLastCompletedStep() + 1, that is when every
\* earlier step is completed; /summary exactly when steps 1, 2 and 3 are all
\* completed; any other route is accessible.
C3_RouteGating ==
  /\ canAccessRoute(wizardData, "/step1")
  /\ \A n \in {2, 3} :
       /\ canAccessRoute(wizardData, StepRoute(n)) <=> n <= getLastCompletedStep(wizardData) + 1
       /\ canAccessRoute(wizardData, StepRoute(n)) <=> \A m \in 1..(n - 1) : Completed(wizardData, m)
  /\ canAccessRoute(wizardData, "/summary") <=> \A m \in Steps : Completed(wizardData, m)
  /\ \A route \in Routes \ {"/step1", "/step2", "/step3", "/summary"} :
       canAccessRoute(wizardData, route)

\* C3 witness: with steps 1 and 2 completed and 3 not, the guard has sent a
\* visitor of a locked route to /step3.
C3_Witness ==
  /\ last.op = "redirectToAppropriateStep"
  /\ Completed(wizardData, 1) /\ Completed(wizardData, 2) /\ ~Completed(wizardData, 3)
  /\ location = "/step3"
  /\ canAccessRoute(wizardData, "/step3") /\ ~canAccessRoute(wizardData, "/summary")

\* C4: after markStepIncomplete(k) every step >= k reads as not completed with
\* no completedAt, and the records of the steps < k are what they were.
C4_CascadingInvalidation ==
  last.op = "markStepIncomplete" =>
    \A s \in Steps :
      IF s >= last.step
        THEN /\ ~getStepCompletion(wizardData, s).isCompleted
             /\ getStepCompletion(wizardData, s).completedAt = "undefined"
             /\ wizardData[s].present => wizardData[s].isCompleted = "false"
        ELSE wizardData[s] = last.before[s]

\* C4 witness: markStepIncomplete(2) on a store with steps 1, 2, 3 completed.
C4_Witness ==
  /\ last.op = "markStepIncomplete" /\ last.step = 2
  /\ \A s \in Steps : Completed(last.before, s)
  /\ Completed(wizardData, 1) /\ ~Completed(wizardData, 2) /\ ~Completed(wizardData, 3)

\* C8: a failed submission of step n leaves every other step untouched: neither
\* the resume that stores step n's payload and calls the collaborator nor the
\* rejection that follows changes the record of a step m # n, so the fields,
\* isCompleted and completedAt of the other steps are after the failure what
\* they were before the submission started.
C8_FailureFrame ==
  [][\A s \in 1..MaxGens :
       \/ gens[s].pc = "yield" /\ gens'[s].pc = "await"
       \/ gens[s].pc = "await" /\ gens'[s].pc = "error"
       => \A m \in Steps \ {gens'[s].step} : wizardData'[m] = wizardData[m]]_vars

\* C8 witness: step 2's submission failed while steps 1 and 3 were stored as
\* completed, and they still are.
C8_Witness ==
  \E s \in Live :
    /\ gens[s].pc = "error" /\ gens[s].step = 2
    /\ gens[s].calls = << <<2, 1>> >>
    /\ Completed(gens[s].loaded, 1) /\ Completed(gens[s].loaded, 3)
    /\ Completed(wizardData, 1) /\ Completed(wizardData, 3)
    /\ wizardData[2] = PayloadRec(1)

\* The route a step page navigates to after a successful submission.
NextRoute(n) == IF n = 3 THEN "/summary" ELSE StepRoute(n + 1)

\* C5: in every state the application reaches from empty storage, a step is
\* stored as completed only if every step before it is stored as completed.
C5_ContiguousCompletion ==
  \A n \in Steps :
    Completed(wizardData, n) => \A m \in 1..(n - 1) : Completed(wizardData, m)

\* C6: right after step n's page submission succeeded, step n's stored record
\* holds the submitted payload's fields with isCompleted true and a
\* completedAt timestamp, and wizard-progress is n.
C6_SubmissionPersists ==
  last.op = "submitSucceeded" =>
    /\ wizardData[last.step] = Rec(last.payload, "true", "set")
    /\ wizardProgress = last.step

\* C7: right after step n's page submission succeeded and the page navigated,
\* step n is stored as completed and the route navigated to passes
\* canAccessRoute.
C7_NextRouteAccessible ==
  last.op = "submitSucceeded" =>
    /\ Completed(wizardData, last.step)
    /\ location = NextRoute(last.step)
    /\ canAccessRoute(wizardData, location)

C12_ResetFrames ==
  [][/\ last'.op = "resetWizardGenerator"
          => /\ globalGen' = 0
             /\ \A s \in 1..MaxGens : gens'[s].pc = "free"
             /\ wizardData' = wizardData /\ wizardProgress' = wizardProgress
     /\ last'.op = "resetWizard"
          => /\ globalGen' = 0
             /\ \A s \in 1..MaxGens : gens'[s].pc = "free"
             /\ wizardData' = EmptyStore /\ wizardProgress' = 0
    ]_vars

\* C12 witness: resetWizardGenerator discarded an instance that had stored
\* step 2's payload over a store holding step 1; the data and the progress
\* are still there.
C12_Witness ==
  /\ last.op = "resetWizardGenerator" /\ globalGen = 0
  /\ wizardData[1].present /\ wizardData[2] = PayloadRec(1)
  /\ wizardProgress = 2

\* C13: a failure of the browser store never reaches the adapter's caller.
\* No call of the adapter or of the readers built on it ends with an
\* exception; a save or remove whose underlying operation threw leaves every
\* key as it was; a load returns the parsed value of what the key held when
\* the read worked and the text parses, and the caller's default otherwise
\* (read threw, key absent, text unparseable); getStepData then returns {}
\* and getWizardProgress returns 0.
Unreadable(c) ==
  c.fault \/ ~localStorage[c.key].present \/ parse(localStorage[c.key].text).threw
C15_NumberStable ==
  [][/\ applicationNumber # 0 /\ last'.op # "startNew"
          => applicationNumber' = applicationNumber
     /\ last'.op = "startNew" => applicationNumber' = 0
     /\ last'.op = "mount" /\ location = "/summary"
          => /\ applicationNumber' # 0
             /\ \A n \in AppNumbers :
                  summaryMount(World', n).applicationNumber = applicationNumber'
    ]_vars
\* The initialisation ran while number 1 was stored and the generator would
\* have returned 2.
C15_Witness ==
  /\ last.op = "mount" /\ last.step = 4 /\ last.payload = 2
  /\ applicationNumber = 1

\* C16: an application number is written only while steps 1, 2 and 3 are all
\* completed: at every step that stores a number where none was stored,
\* areAllStepsCompleted() holds on the stored wizard data.
C16_NumberOnlyWhenComplete ==
  [][applicationNumber = 0 /\ applicationNumber' # 0
       => areAllStepsCompleted(wizardData)]_vars

\* C17: shouldGenerateApplicationNumber() answers true exactly when the
\* records of steps 1, 2 and 3 all carry isCompleted = true and the location
\* is /summary; all completed on another route, or /summary with a step
\* missing or not completed, gives false.
C17_ShouldGenerate ==
  last.op = "shouldGenerateApplicationNumber"
    => (last.payload = 1
          <=> /\ \A s \in Steps : wizardData[s].present /\ wizardData[s].isCompleted = "true"
              /\ location = "/summary")
\* Asked on /summary with step 3 invalidated, and asked on /step3 with every
\* step completed: false both times.
C17_Witness ==
  /\ last.op = "shouldGenerateApplicationNumber" /\ last.payload = 0
  /\ wizardData[1].isCompleted = "true" /\ wizardData[2].isCompleted = "true"
  /\ \/ location = "/summary" /\ wizardData[3].isCompleted = "false"
     \/ location = "/step3" /\ wizardData[3].isCompleted = "true"

\* C18: redirectToAppropriateStep calls navigate only when the current
\* location fails canAccessRoute, and then with replace: true and the route of
\* step getNextAllowedStep(); when the location passes it makes no call and
\* the location stays; either way nothing stored changes.
C18_RedirectOnlyWhenDenied ==
  [][last'.op = "redirectToAppropriateStep"
       => /\ <<wizardData, wizardProgress, applicationNumber, wizardCompleted, localStorage>>'
               = <<wizardData, wizardProgress, applicationNumber, wizardCompleted, localStorage>>
          /\ IF canAccessRoute(wizardData, location)
               THEN last'.nav = NoNav /\ location' = location
               ELSE /\ last'.nav = Nav(StepRoute(getNextAllowedStep(wizardData)), TRUE)
                    /\ location' = StepRoute(getNextAllowedStep(wizardData))]_vars
\* A redirect from a page that step 2, not completed, does not allow: the
\* location was replaced by /step2.
C18_Witness ==
  /\ last.op = "redirectToAppropriateStep"
  /\ last.nav = Nav("/step2", TRUE)
  /\ location = "/step2"
  /\ wizardData[1].isCompleted = "true" /\ wizardData[3].isCompleted = "true"

\* C19: getLastCompletedStep() is the length of the longest prefix of steps
\* 1..3 whose records all carry isCompleted = true, whatever the later steps
\* say, and getNextAllowedStep() is that length plus one, capped at 3; a
\* redirect that navigates goes to the route of that step.  Nothing stored
\* gives 0 and 1; only step 1 completed gives 1 and 2.
Done(s) == wizardData[s].present /\ wizardData[s].isCompleted = "true"
Prefix == CHOOSE n \in 0..3 : (\A s \in 1..n : Done(s)) /\ (n = 3 \/ ~Done(n + 1))
C19_PrefixSemantics ==
  /\ getLastCompletedStep(wizardData) = Prefix
  /\ getNextAllowedStep(wizardData) = (IF Prefix = 3 THEN 3 ELSE Prefix + 1)
  /\ wizardData = EmptyStore
       => getLastCompletedStep(wizardData) = 0 /\ getNextAllowedStep(wizardData) = 1
  /\ Done(1) /\ ~Done(2) /\ ~Done(3)
       => getLastCompletedStep(wizardData) = 1 /\ getNextAllowedStep(wizardData) = 2
  /\ last.op = "redirectToAppropriateStep" /\ last.nav.called
       => last.nav.to = (CASE Prefix = 0 -> "/step1" [] Prefix = 1 -> "/step2"
                           [] OTHER -> "/step3")
\* Steps 2 and 3 are completed, step 1 was invalidated: the redirect from a
\* later page goes back to /step1.
C19_Witness ==
  /\ ~Done(1) /\ wizardData[1].present /\ Done(2) /\ Done(3)
  /\ last.op = "redirectToAppropriateStep"
  /\ last.nav.to = "/step1"

\* C20: from empty storage, wizardStep and the saved wizard-progress stay in
\* 0..3.  nextStep() changes wizardStep only to one more than the value its
\* closure holds, and only when that value is below 2, so it never produces
\* 3; previousStep() only to one less, and only when that value is above 0;
\* with an up-to-date closure they are +1 below 2 and -1 above 0 and nothing
\* otherwise.  The navigation state's resetWizard() sets wizardStep to 0.
C20_StepRange ==
  /\ [](wizardStep \in 0..3 /\ wizardProgress \in 0..3)
  /\ [][/\ last'.op = "nextStep"
            => /\ wizardStep' = (IF last'.step < 2 THEN last'.step + 1 ELSE wizardStep)
               /\ wizardStep' = 3 => wizardStep = 3
               /\ last'.step = wizardStep
                    => wizardStep' = (IF wizardStep < 2 THEN wizardStep + 1 ELSE wizardStep)
        /\ last'.op = "previousStep"
            => /\ wizardStep' = (IF last'.step > 0 THEN last'.step - 1 ELSE wizardStep)
               /\ last'.step = wizardStep
                    => wizardStep' = (IF wizardStep > 0 THEN wizardStep - 1 ELSE wizardStep)
        /\ last'.op = "navResetWizard" => wizardStep' = 0
       ]_vars
\* nextStep() was called with wizardStep at 2, known to its closure, and
\* wizardStep is still 2.
C20_Witness ==
  /\ last.op = "nextStep" /\ last.step = 2
  /\ handler[1].captured = 2
  /\ wizardStep = 2 /\ wizardProgress = 2

\* C21: wizard-progress mirrors wizardStep: whenever no page effect is
\* pending and no submission is awaiting the collaborator, the saved
\* wizard-progress equals the wizardStep of the navigation state.
C21_ProgressMirrorsStep ==
  ~mounting /\ ~isSubmitting /\ Awaiting = {} => wizardProgress = wizardStep

\* C22: the debounced saves of a step key coalesce.  Every write the
\* service makes for a key carries the data of the latest debouncedSave call
\* for that key, comes at least 1000 ms after that call, and no other call or
\* write for the key lies between the two: calls that follow each other
\* within 1000 ms give one write, after the last of them, with its value.
\* Until then the key's timer stays armed with that value.
C22_DebounceCoalesces ==
  /\ \A i \in 1..Len(log) :
       log[i].kind = "write"
         => \E j \in 1..(i - 1) :
              /\ log[j].kind = "call" /\ log[j].step = log[i].step
              /\ log[j].data = log[i].data
              /\ log[i].at >= log[j].at + 1000
              /\ \A k \in (j + 1)..(i - 1) :
                   log[k].kind # "clear" /\ log[k].step # log[i].step
  /\ \A j \in 1..Len(log) :
       /\ log[j].kind = "call"
       /\ \A k \in (j + 1)..Len(log) : log[k].kind # "clear" /\ log[k].step # log[j].step
       => timers[log[j].step] =
            [pending |-> TRUE, data |-> log[j].data, due |-> log[j].at + 1000]
  /\ Len(log) > 0 /\ log[Len(log)].kind = "write"
       => wizardData[log[Len(log)].step] = PayloadRec(log[Len(log)].data)
\* Two calls for step 1, 500 ms apart, with values 1 and 2, then one write of 2.
C22_Witness ==
  /\ Len(log) = 3
  /\ log[1] = [kind |-> "call", step |-> 1, data |-> 1, at |-> 0]
  /\ log[2].kind = "call" /\ log[2].step = 1 /\ log[2].data = 2
  /\ log[2].at - log[1].at < 1000 /\ log[2].at > log[1].at
  /\ log[3].kind = "write" /\ log[3].step = 1 /\ log[3].data = 2
  /\ wizardData[1] = PayloadRec(2)

C24_StartNewResets ==
  [][last'.op = "startNew"
       => /\ applicationNumber' = 0 /\ ~wizardCompleted'
          /\ \A s \in Steps : ~wizardData'[s].present
          /\ getLastCompletedStep(wizardData') = 0
          /\ wizardProgress' = 0 /\ wizardStep' = 0
          /\ globalGen' = 0
          /\ \A s \in Steps : ~timers'[s].pending
          /\ location' = "/step1"]_vars
\* Start new removed application number 2; the page left was the Summary.
C24_Witness ==
  /\ last.op = "startNew" /\ last.payload = 2
  /\ location = "/step1" /\ mounting
  /\ applicationNumber = 0 /\ wizardStep = 0

\* C25: markStepCompleted(step) leaves the step's record with isCompleted =
\* true and a completedAt timestamp and with the form fields it had, leaves
\* the records of the other two steps as they were, and getStepCompletion(step)
\* then reports the step completed.
C25_MarkCompletedFrame ==
  last.op = "markStepCompleted"
    => /\ wizardData[last.step].present
       /\ wizardData[last.step].isCompleted = "true"
       /\ wizardData[last.step].completedAt = "set"
       /\ wizardData[last.step].fields = last.before[last.step].fields
       /\ \A s \in Steps \ {last.step} : wizardData[s] = last.before[s]
       /\ getStepCompletion(wizardData, last.step).isCompleted
\* Step 2, stored with form fields and invalidated, was marked completed next
\* to a completed step 1 and an absent step 3.
C25_Witness ==
  /\ last.op = "markStepCompleted" /\ last.step = 2
  /\ last.before[2] = Rec(2, "false", "undefined")
  /\ wizardData[2] = Rec(2, "true", "set")
  /\ wizardData[1].isCompleted = "true" /\ ~wizardData[3].present

\* C26: resetAllCompletions() leaves every one of the three steps with a
\* record whose isCompleted is false and whose completedAt is cleared,
\* creating the record where there was none, with the form fields each
\* record had; getLastCompletedStep() is then 0.
C26_ResetAllFrame ==
  last.op = "resetAllCompletions"
    => /\ \A s \in Steps :
            /\ wizardData[s].present
            /\ wizardData[s].isCompleted = "false"
            /\ wizardData[s].completedAt = "undefined"
            /\ wizardData[s].fields = last.before[s].fields
            /\ ~getStepCompletion(wizardData, s).isCompleted
       /\ getLastCompletedStep(wizardData) = 0
\* Step 1 was completed with form fields, step 3 had no record: after the
\* reset step 1 keeps its fields and step 3 has a record.
C26_Witness ==
  /\ last.op = "resetAllCompletions"
  /\ last.before[1] = Rec(1, "true", "set") /\ ~last.before[3].present
  /\ wizardData[1] = Rec(1, "false", "undefined")
  /\ wizardData[3] = Rec(0, "false", "undefined")

\* C27: entering the root path replaces the location by the furthest route
\* the completion state allows: /step1 with nothing completed, /step2 with
\* step 1 completed, /step3 with steps 1 and 2 completed, /summary with all
\* three completed.
C27_RootRedirect ==
  last.op = "wizardRedirect"
    => /\ last.nav.called /\ last.nav.replace /\ last.nav.to = location
       /\ location = (CASE Prefix = 0 -> "/step1"
                        [] Prefix = 1 -> "/step2"
                        [] Prefix = 2 -> "/step3"
                        [] OTHER -> "/summary")

\* C28: within one submission of step n the two writes come before the
\* collaborator: in the step in which the collaborator is called with the
\* payload, wizard-form-data already holds the payload under step n and
\* wizard-progress is n; the rejection that follows and the resume after it
\* write nothing, so both are still stored when the instance has ended.
C28_StoreBeforeSubmit ==
  [][\A s \in 1..MaxGens :
       /\ gens[s].pc = "yield" /\ gens'[s].pc = "await"
          => /\ gens'[s].calls = Append(gens[s].calls, <<gens[s].step, gens'[s].payload>>)
             /\ wizardData'[gens[s].step] = PayloadRec(gens'[s].payload)
             /\ wizardProgress' = gens[s].step
       /\ gens[s].pc = "await" /\ gens'[s].pc = "error"
          => /\ wizardData[gens[s].step] = PayloadRec(gens[s].payload)
             /\ wizardProgress = gens[s].step
             /\ wizardData' = wizardData /\ wizardProgress' = wizardProgress
       /\ gens[s].pc = "error" /\ gens'[s].pc = "done"
          => wizardData' = wizardData /\ wizardProgress' = wizardProgress]_vars

\* C28 witness: step 1's submission with payload 2 was rejected on a store that
\* was empty before; the payload and progress 1 are stored.
C28_Witness ==
  \E s \in Live :
    /\ gens[s].pc = "error" /\ gens[s].step = 1 /\ gens[s].payload = 2
    /\ gens[s].loaded = EmptyStore /\ gens[s].savedProgress = 0
    /\ wizardData[1] = PayloadRec(2) /\ wizardProgress = 1

\* C29: a response that resolves is handled the same whatever its success
\* flag: the instance goes on to the next step's descriptor, or to the terminal
\* result after step 3, exactly as genAdvance gives it, and yields no error
\* descriptor; the error descriptor comes from a rejection only.
C29_UnsuccessfulIsSuccess ==
  [][\A s \in 1..MaxGens :
       gens[s].pc = "await" /\ gens'[s].pc # "await"
       => /\ last'.op \in {"resolved", "resolvedUnsuccessful"}
             => /\ gens'[s] = genAdvance(gens[s])
                /\ gens'[s].out = (IF gens[s].step < 3
                                     THEN Descriptor(gens[s].step + 1, gens[s].savedProgress)
                                     ELSE Terminal(gens[s].allFormData))
                /\ ~gens'[s].out.hasError
          /\ gens'[s].out.hasError <=> last'.op = "rejected"]_vars

\* C29 witness: step 1's submission resolved with success false and the
\* instance yielded step 2's descriptor, no error in what it yielded so far.
C29_Witness ==
  /\ last.op = "resolvedUnsuccessful"
  /\ \E s \in Live :
       /\ gens[s].pc = "yield" /\ gens[s].step = 2
       /\ gens[s].calls = << <<1, 1>> >>
       /\ gens[s].out = Descriptor(2, gens[s].savedProgress)
       /\ \A i \in 1..Len(gens[s].hist) : ~gens[s].hist[i].hasError

\* C30: an instance that was resumed without data up to the descriptor of
\* step n (n = 2 or 3) and is then resumed with a payload has yielded the
\* descriptors of steps 1..n and nothing else, and is where the pages' loop
\* over next() leaves a fresh instance; the resume calls the
\* collaborator, for the first and only time, with step n's payload, stores
\* the payload as step n's record and n as wizard-progress, and the stored
\* records of the steps below n are the ones the instance loaded.
C30_FastForward ==
  [][\A s \in 1..MaxGens :
       /\ gens[s].pc = "yield" /\ gens'[s].pc = "await"
       /\ gens[s].step >= 2 /\ gens[s].calls = <<>>
       => LET n == gens[s].step
              p == gens'[s].payload
          IN /\ gens[s].hist = [i \in 1..n |-> Descriptor(i, gens[s].savedProgress)]
             /\ [gens[s] EXCEPT !.arg = 0, !.id = 0]
                  = fastForward(genLoad(NewGen, gens[s].loaded, gens[s].savedProgress), n)
             /\ gens'[s].calls = << <<n, p>> >>
             /\ wizardData'[n] = PayloadRec(p)
             /\ wizardProgress' = n
             /\ \A m \in 1..(n - 1) : wizardData'[m] = gens[s].loaded[m]]_vars

\* C30 witness: an instance that loaded steps 1 and 2 as completed went to
\* step 3 without data and was resumed with payload 1: one collaborator call,
\* steps 1 and 2 as loaded, step 3 the payload, progress 3.
C30_Witness ==
  \E s \in Live :
    /\ gens[s].pc = "await" /\ gens[s].step = 3
    /\ Len(gens[s].hist) = 3 /\ gens[s].calls = << <<3, 1>> >>
    /\ Completed(gens[s].loaded, 1) /\ Completed(gens[s].loaded, 2)
    /\ wizardData[1] = gens[s].loaded[1] /\ wizardData[2] = gens[s].loaded[2]
    /\ wizardData[3] = PayloadRec(1) /\ wizardProgress = 3

\* C31: a debounced write fires only while the page that scheduled it is the
\* mounted one: in a step in which the pending timer of a step runs its
\* callback, the location is that step's route.
C31_NoWriteAfterUnmount ==
  [][\A step \in Steps :
       /\ timers[step].pending /\ ~timers'[step].pending
       /\ wizardData'[step] = PayloadRec(timers[step].data)
       /\ location' = location /\ mounting' = mounting
       => location = StepRoute(step)]_vars

\* C32: a write of step n's record, by the sequencer accepting step n's
\* payload or by the debounced write of step n firing, leaves the records of
\* the other steps as the store held them just before the write.
C32_NoStaleOverwrite ==
  [][/\ \A s \in 1..MaxGens :
          gens[s].pc = "yield" /\ gens'[s].pc = "await"
          => \A m \in Steps \ {gens'[s].step} : wizardData'[m] = wizardData[m]
     /\ \A step \in Steps :
          /\ timers[step].pending /\ ~timers'[step].pending
          /\ wizardData'[step] = PayloadRec(timers[step].data)
          => \A m \in Steps \ {step} : wizardData'[m] = wizardData[m]]_vars

\* C33: for every stored record the route of getNextAllowedStep() passes
\* canAccessRoute; a redirect leaves the router at a location that passes it,
\* where a second redirectToAppropriateStep on the same store navigates
\* nowhere.
C33_RedirectSettles ==
  /\ [](canAccessRoute(wizardData, StepRoute(getNextAllowedStep(wizardData))))
  /\ [][last'.op = "redirectToAppropriateStep"
          => /\ wizardData' = wizardData
             /\ canAccessRoute(wizardData, location')
             /\ redirectToAppropriateStep(wizardData, location') = NoNav
             /\ redirectTarget(wizardData, location') = location']_vars

\* C33 witness: with steps 1 and 2 completed and step 3 not, a redirect from
\* the summary replaced the location by /step3, which the guard allows.
C33_Witness ==
  /\ last.op = "redirectToAppropriateStep"
  /\ last.nav = Nav("/step3", TRUE)
  /\ location = "/step3"
  /\ getLastCompletedStep(wizardData) = 2
  /\ ~canAccessRoute(wizardData, "/summary")
  /\ canAccessRoute(wizardData, location)

\* C34: on every stored record the guard's answers agree: all steps are
\* completed exactly when the last completed step is 3, a route that is
\* allowed makes the routes of the earlier steps allowed (summary, then
\* step 3, then step 2), and the next allowed step is 1, 2 or 3.
C34_GuardConsistent ==
  /\ areAllStepsCompleted(wizardData) <=> getLastCompletedStep(wizardData) = 3
  /\ canAccessRoute(wizardData, "/summary") => canAccessRoute(wizardData, "/step3")
  /\ canAccessRoute(wizardData, "/step3") => canAccessRoute(wizardData, "/step2")
  /\ getNextAllowedStep(wizardData) \in 1..3

\* C34 witness: marking step 1 completed on a store where steps 2 and 3
\* already were brought the last completed step from 0 to 3 and opened every
\* route.
C34_Witness ==
  /\ last.op = "markStepCompleted" /\ last.step = 1
  /\ getLastCompletedStep(last.before) = 0 /\ ~canAccessRoute(last.before, "/step3")
  /\ areAllStepsCompleted(wizardData) /\ getLastCompletedStep(wizardData) = 3
  /\ \A r \in Routes : canAccessRoute(wizardData, r)

\* C35: a step that is completed stops being completed only in a step that
\* is markStepIncomplete(k) for some k up to it, resetAllCompletions, or the
\* removal of the whole record (resetWizard, clearAllData); a debounced write
\* and a re-submission leave the flag.
C35_CompletionSticky ==
  [][\A n \in Steps :
       /\ getStepCompletion(wizardData, n).isCompleted
       /\ ~getStepCompletion(wizardData', n).isCompleted
       => \/ \E k \in 1..n : wizardData' = markStepIncomplete(wizardData, k)
          \/ wizardData' = resetAllCompletions(wizardData)
          \/ wizardData' = EmptyStore]_vars

\* C36: when the Summary's mount effects run on a store with all three steps
\* completed, canAccessRoute("/summary") is true after them, and it stays
\* true in every step that is not start-new.
C36_SummaryStaysReachable ==
  [][/\ location = "/summary" /\ mounting /\ ~mounting'
        /\ areAllStepsCompleted(wizardData)
        => canAccessRoute(wizardData', "/summary")
     /\ wizardCompleted /\ canAccessRoute(wizardData, "/summary")
        /\ last'.op # "startNew"
        => canAccessRoute(wizardData', "/summary")]_vars

\* C37: the mounted step page has at most one submission awaiting the
\* collaborator: two instances that await are never both runs of handlers of
\* the page that is mounted.
C37_OneInFlight ==
  \A s, t \in 1..MaxGens :
    /\ s # t
    /\ gens[s].pc = "await" /\ gens[t].pc = "await"
    /\ handler[s].mounted /\ handler[t].mounted
    => handler[s].page # handler[t].page

\* C38: clearAllData leaves no record and no pending timer; a timer write
\* that comes after a clearAllData belongs to a debouncedSave call for its
\* key made after that clearAllData, and while nothing was called since the
\* clearAllData the record is absent, however much time passes.
C38_ClearCancels ==
  /\ [](/\ \A i, j \in 1..Len(log) :
             i < j /\ log[i].kind = "clear" /\ log[j].kind = "write"
             => \E k \in (i + 1)..(j - 1) :
                  log[k].kind = "call" /\ log[k].step = log[j].step
        /\ log # <<>> /\ log[Len(log)].kind = "clear"
             => wizardData = EmptyStore /\ \A s \in Steps : ~timers[s].pending)
  /\ [][last'.op = "clearAllData"
          => wizardData' = EmptyStore /\ timers' = [s \in Steps |-> NoTimer]]_vars

\* C38 witness: writes for steps 1 and 2 were pending when clearAllData ran;
\* both delays have passed since, and nothing was written.
C38_Witness ==
  /\ Len(log) = 3
  /\ log[1].kind = "call" /\ log[1].step = 1
  /\ log[2].kind = "call" /\ log[2].step = 2
  /\ log[3].kind = "clear" /\ log[3].at < log[1].at + Delay
  /\ now >= log[2].at + Delay
  /\ wizardData = EmptyStore

\* C39: a user who submits the steps in order, with every submission
\* succeeding in the end, gets to the Summary with steps 1, 2 and 3 completed
\* and an application number stored.
C39_WizardCompletes ==
  <>(/\ location = "/summary" /\ ~mounting
     /\ applicationNumber # 0
     /\ areAllStepsCompleted(wizardData))

\* C40: a failed submission followed by the submission of the same payload
\* is, for what is stored, the same as the first submission alone: the
\* failure changes neither wizard-form-data nor wizard-progress nor the
\* navigation state, the resubmission on its fresh instance, finding the
\* record and the progress the first one wrote, changes nothing, and leaves
\* one run awaiting with the payload at step n; its success then adds what a
\* first success adds (step 3's completion), so the completion flags agree.
C40_RetryEquivalent ==
  [][/\ last'.op = "submitFailed"
        => /\ <<wizardData, wizardProgress, wizardStep, location, form>>'
                = <<wizardData, wizardProgress, wizardStep, location, form>>
           /\ <<applicationNumber, wizardCompleted, timers>>'
                = <<applicationNumber, wizardCompleted, timers>>
     /\ last'.op = "resubmit"
        /\ wizardData[last'.step] = PayloadRec(last'.payload)
        /\ wizardProgress = last'.step
        => /\ wizardData' = wizardData /\ wizardProgress' = wizardProgress
           /\ wizardData'[last'.step] = PayloadRec(last'.payload)
           /\ wizardProgress' = last'.step
           /\ gens'[globalGen'].pc = "await" /\ gens'[globalGen'].step = last'.step
           /\ gens'[globalGen'].payload = last'.payload
           /\ handler'[globalGen'].captured = wizardStep
     /\ last'.op = "submitSucceeded"
        => /\ wizardData' = (IF last'.step = 3 THEN markStepCompleted(wizardData, 3)
                             ELSE wizardData)
           /\ \A n \in Steps :
                getStepCompletion(wizardData', n).isCompleted
                  = ((n = 3 /\ last'.step = 3) \/ getStepCompletion(wizardData, n).isCompleted)]_vars

\* C40 witness: step 2's payload 1 was submitted again right after its
\* submission failed; the store is as the first submission left it and the
\* run awaits the collaborator.
C40_Witness ==
  /\ last = Op("resubmit", 2, 1)
  /\ location = "/step2" /\ isSubmitting
  /\ wizardData[2] = PayloadRec(1) /\ wizardProgress = 2
  /\ globalGen # 0 /\ gens[globalGen].pc = "await" /\ gens[globalGen].step = 2

====
